---- MODULE Spec2Model ----
(***************************************************************************)
(* wezzapp: WeatherService.get_weather and the two HTTP provider clients.  *)
(*                                                                         *)
(* One `get` invocation is a linear pipeline (weather_service.rs 26-54):   *)
(* date -> provider -> credentials -> factory -> client.  The position of  *)
(* the invocation is pc; every store read, factory call and outbound HTTP  *)
(* request is recorded so that ordering properties can be stated.          *)
(* Option<T> is the empty tuple (None) or a one-element tuple (Some).      *)
(***************************************************************************)
EXTENDS Integers, Sequences, FiniteSets, TLC

\* ------------------------------------------------------------------ bounds
MaxAhead == 15
MaxBack == 1
MaxTicks == 1
MaxCandidates == 2
MaxForecastLen == 15
MaxFar == 64
MaxPast == 40

\* --------------------------------------------------------- program constants
WeatherApiMaxDays == 14
AccuWeatherMaxDays == 5

\* ------------------------------------------------------- provider.rs / credentials.rs
Provider == {"WeatherApi", "AccuWeather"}

ApiKeys == {"XYZ", "abc"}

Credentials == [variant : Provider, api_key : ApiKeys]

\* Credentials::provider
CredentialsProvider(c) == c.variant

NoneV == << >>
Some(x) == << x >>
Option(S) == {NoneV} \cup {Some(x) : x \in S}

\* store.rs Config: default provider and the provider -> credentials map
Config == [default : Option(Provider), providers : [Provider -> Option(Credentials)]]

\* ------------------------------------------------------------------ calendar (chrono::NaiveDate)
NaiveDate(y, m, d) == [year |-> y, month |-> m, day |-> d]

IsLeapYear(y) == (y % 4 = 0 /\ y % 100 # 0) \/ y % 400 = 0

DaysInMonth(y, m) ==
    IF m = 2 THEN (IF IsLeapYear(y) THEN 29 ELSE 28)
    ELSE IF m \in {4, 6, 9, 11} THEN 30 ELSE 31

\* a validity check that takes every month to have 31 days
from_ymd_opt_any_month(y, m, d) ==
    IF m \in 1..12 /\ d >= 1 /\ d <= 31
    THEN Some(NaiveDate(y, m, d)) ELSE NoneV

\* NaiveDate::from_ymd_opt: None unless the day exists in the calendar
from_ymd_opt(y, m, d) ==
    IF m \in 1..12 /\ d >= 1 /\ d <= DaysInMonth(y, m)
    THEN Some(NaiveDate(y, m, d)) ELSE NoneV

RECURSIVE DaysBeforeMonth(_, _)
DaysBeforeMonth(y, m) ==
    IF m <= 1 THEN 0 ELSE DaysBeforeMonth(y, m - 1) + DaysInMonth(y, m - 1)

\* a day number that forgets the leap days of the years gone by
num_days_from_ce_no_leap(dt) ==
    365 * (dt.year - 1) + DaysBeforeMonth(dt.year, dt.month) + dt.day

\* NaiveDate::num_days_from_ce: day number in the proleptic Gregorian calendar
num_days_from_ce(dt) ==
    LET y == dt.year - 1 IN
    365 * y + (y \div 4) - (y \div 100) + (y \div 400)
        + DaysBeforeMonth(dt.year, dt.month) + dt.day

\* NaiveDate's derived ordering: (year, month, day) lexicographic
DateLess(a, b) ==
    \/ a.year < b.year
    \/ a.year = b.year /\ a.month < b.month
    \/ a.year = b.year /\ a.month = b.month /\ a.day < b.day

\* today + Duration::days(1) and today - Duration::days(1) as the tests build them
succ_day(dt) ==
    IF dt.day < DaysInMonth(dt.year, dt.month) THEN NaiveDate(dt.year, dt.month, dt.day + 1)
    ELSE IF dt.month < 12 THEN NaiveDate(dt.year, dt.month + 1, 1)
    ELSE NaiveDate(dt.year + 1, 1, 1)

pred_day(dt) ==
    IF dt.day > 1 THEN NaiveDate(dt.year, dt.month, dt.day - 1)
    ELSE IF dt.month > 1 THEN NaiveDate(dt.year, dt.month - 1, DaysInMonth(dt.year, dt.month - 1))
    ELSE NaiveDate(dt.year - 1, 12, 31)

RECURSIVE add_days(_, _)
add_days(dt, k) ==
    IF k = 0 THEN dt
    ELSE IF k > 0 THEN add_days(succ_day(dt), k - 1)
    ELSE add_days(pred_day(dt), k + 1)

\* A date string, tokenised: three numeric fields, the two separators and
\* whatever follows the day field.
DateStr(y, s1, m, s2, d, r) ==
    [year |-> y, sep1 |-> s1, month |-> m, sep2 |-> s2, day |-> d, rest |-> r]

\* tests::fmt: d.format("%Y-%m-%d")
fmt(dt) == DateStr(dt.year, "-", dt.month, "-", dt.day, "")

\* NaiveDate::parse_from_str(s, "%Y-%m-%d"): literal '-' separators, nothing
\* after the day, and the three numbers must name an existing day
parse_from_str(s) ==
    IF s.sep1 # "-" \/ s.sep2 # "-" \/ s.rest # "" THEN NoneV
    ELSE from_ymd_opt(s.year, s.month, s.day)

\* ------------------------------------------------------------------ results
\* anyhow::Result: the error kind of spec section 7, the message the code
\* builds, and what the message names (a provider, a day limit)
Ok(report) ==
    [kind |-> "Ok", err |-> "", msg |-> "", provider |-> "", limit |-> 0,
     report |-> Some(report)]

Err(e, m, p, l) ==
    [kind |-> "Err", err |-> e, msg |-> m, provider |-> p, limit |-> l, report |-> NoneV]

\* ------------------------------------------------------------------ weather_service.rs
\* days_from_today(date_str), with Local::now().date_naive() passed as now.
\* The difference is at least 0 on the last branch and, chrono's years
\* ending at 262142, far below 2^32: the cast `days as u32` keeps its value.
days_from_today(date_str, now) ==
    LET target == parse_from_str(date_str) IN
    IF target = NoneV
    THEN [ok |-> FALSE, days |-> 0, err |-> "InvalidDateFormat",
          msg |-> "invalid date format (expected YYYY-MM-DD)"]
    ELSE IF DateLess(target[1], now)
    THEN [ok |-> FALSE, days |-> 0, err |-> "DateInPast", msg |-> "date is in the past"]
    ELSE [ok |-> TRUE,
          days |-> num_days_from_ce(target[1]) - num_days_from_ce(now),
          err |-> "", msg |-> ""]

\* a lookup that falls back to any stored credentials
get_credentials_any(cfg, p) ==
    IF cfg.providers[p] # NoneV THEN cfg.providers[p]
    ELSE IF \E q \in Provider : cfg.providers[q] # NoneV
    THEN cfg.providers[CHOOSE q \in Provider : cfg.providers[q] # NoneV]
    ELSE NoneV

\* TomlFileCredentialsStore::get_credentials / get_default_provider
get_credentials(cfg, p) == cfg.providers[p]

get_default_provider(cfg) == cfg.default

\* a resolution that prefers the stored default to the override
resolve_provider_default_first(override, cfg) ==
    IF get_default_provider(cfg) # NoneV
    THEN [ok |-> TRUE, provider |-> get_default_provider(cfg)[1],
          reads |-> << "get_default_provider" >>]
    ELSE IF override # NoneV
    THEN [ok |-> TRUE, provider |-> override[1], reads |-> << "get_default_provider" >>]
    ELSE [ok |-> FALSE, provider |-> "", reads |-> << "get_default_provider" >>]

\* WeatherService::resolve_provider: the override, else the stored default
resolve_provider(override, cfg) ==
    IF override # NoneV THEN [ok |-> TRUE, provider |-> override[1], reads |-> << >>]
    ELSE IF get_default_provider(cfg) # NoneV
    THEN [ok |-> TRUE, provider |-> get_default_provider(cfg)[1],
          reads |-> << "get_default_provider" >>]
    ELSE [ok |-> FALSE, provider |-> "", reads |-> << "get_default_provider" >>]

\* ------------------------------------------------------------------ apis/mod.rs
WeatherApiClient(api_key) ==
    [kind |-> "WeatherApi", api_key |-> api_key, url |-> "https://api.weatherapi.com/v1/"]

AccuWeatherClient(api_key) ==
    [kind |-> "AccuWeather", api_key |-> api_key, url |-> "https://dataservice.accuweather.com/"]

\* a factory that dispatches on the provider alone
create_client_by_provider(provider, credentials) ==
    IF provider = "WeatherApi"
    THEN [ok |-> TRUE, client |-> Some(WeatherApiClient(credentials.api_key)), named |-> ""]
    ELSE [ok |-> TRUE, client |-> Some(AccuWeatherClient(credentials.api_key)), named |-> ""]

\* HttpProviderClientFactory::create_client
create_client(provider, credentials) ==
    IF provider = "WeatherApi" /\ credentials.variant = "WeatherApi"
    THEN [ok |-> TRUE, client |-> Some(WeatherApiClient(credentials.api_key)), named |-> ""]
    ELSE IF provider = "AccuWeather" /\ credentials.variant = "AccuWeather"
    THEN [ok |-> TRUE, client |-> Some(AccuWeatherClient(credentials.api_key)), named |-> ""]
    ELSE [ok |-> FALSE, client |-> NoneV, named |-> provider]

\* ------------------------------------------------------------------ HTTP
Bearer(api_key) == Some([scheme |-> "Bearer", token |-> api_key])

Request(endpoint, key, q, days, auth, location_key, metric) ==
    [endpoint |-> endpoint, key |-> key, q |-> q, days |-> days,
     authorization |-> auth, location_key |-> location_key, metric |-> metric]

\* What the transport hands back: send() failed, error_for_status() failed,
\* json() failed, or a body that deserialised
Failures == {"send", "status", "json"}

\* WeatherAPI forecast.json body with n forecast days
WeatherApiForecastDay(i) ==
    [date |-> i - 1, maxtemp_c |-> 20 + i, mintemp_c |-> 10 + i, text |-> "Sunny"]

WeatherApiResponse(n) ==
    [location |-> [name |-> "Kyiv", country |-> "Ukraine"],
     forecastday |-> [i \in 1..n |-> WeatherApiForecastDay(i)]]

\* AccuWeather locations/v1/search candidates
AccuWeatherLocations ==
    {[key |-> "324561", localized_name |-> "Lviv", country |-> "Ukraine"],
     [key |-> "2123", localized_name |-> "Lviv", country |-> "Poland"]}

CandidateLists == UNION {[1..n -> AccuWeatherLocations] : n \in 0..MaxCandidates}

\* AccuWeather forecasts/v1/daily/5day body with n daily forecasts
AccuWeatherDailyForecast(i) ==
    [date |-> i - 1, minimum |-> 10 + i, maximum |-> 20 + i,
     day |-> "Sunny", night |-> "Clear"]

AccuWeatherForecastResponse(n) == [i \in 1..n |-> AccuWeatherDailyForecast(i)]

\* Lengths of the forecast array an upstream may answer with, around the
\* requested offset: empty, one short, exactly enough, the longest modelled
ForecastLens(day_from_today) ==
    {0, day_from_today, day_from_today + 1, MaxForecastLen} \cap 0..MaxForecastLen

\* ------------------------------------------------------------------ apis/weather_api.rs
\* a horizon check that compares the offset instead of the day count
WeatherApiHorizonExceeded_offset(day_from_today) ==
    day_from_today > WeatherApiMaxDays

\* WeatherApiClient::get_weather, the horizon check: days = day_from_today + 1.
\* The offsets days_from_today produces are far below u32::MAX, so the
\* addition does not wrap.
WeatherApiHorizonExceeded(day_from_today) ==
    LET days == day_from_today + 1 IN days > WeatherApiMaxDays

\* a request that asks for as many days as the offset
WeatherApiRequest_offset(client, address, day_from_today) ==
    Request("forecast.json", client.api_key, address, day_from_today, NoneV, "", "")

\* the GET built by WeatherApiClient::get_weather
WeatherApiRequest(client, address, day_from_today) ==
    Request("forecast.json", client.api_key, address, day_from_today + 1, NoneV, "", "")

\* a translation that falls back to the last day the response holds
WeatherApiReport_last_day(body, day_from_today) ==
    IF Len(body.forecastday) = 0
    THEN Err("AddressNotFound", "wrong number of days in API response", "", 0)
    ELSE LET n == IF day_from_today + 1 > Len(body.forecastday)
                  THEN Len(body.forecastday) ELSE day_from_today + 1
             forecast == body.forecastday[n] IN
         Ok([provider |-> "WeatherApi",
             date |-> forecast.date,
             location |-> << body.location.name, body.location.country >>,
             description |-> << forecast.text >>,
             max_temperature |-> forecast.maxtemp_c,
             min_temperature |-> forecast.mintemp_c])

\* the tail of WeatherApiClient::get_weather: select forecastday[day_from_today]
WeatherApiReport(body, day_from_today) ==
    IF day_from_today + 1 > Len(body.forecastday)
    THEN Err("AddressNotFound", "wrong number of days in API response", "", 0)
    ELSE LET forecast == body.forecastday[day_from_today + 1] IN
         Ok([provider |-> "WeatherApi",
             date |-> forecast.date,
             location |-> << body.location.name, body.location.country >>,
             description |-> << forecast.text >>,
             max_temperature |-> forecast.maxtemp_c,
             min_temperature |-> forecast.mintemp_c])

\* ------------------------------------------------------------------ apis/accu_weather.rs
\* a horizon check that compares the offset instead of the day count
AccuWeatherHorizonExceeded_offset(day_from_today) ==
    day_from_today > AccuWeatherMaxDays

\* a horizon check that also rejects the last supported day
AccuWeatherHorizonExceeded_strict(day_from_today) ==
    day_from_today + 1 >= AccuWeatherMaxDays

\* AccuWeatherClient::get_weather, the horizon check
AccuWeatherHorizonExceeded(day_from_today) ==
    LET days == day_from_today + 1 IN days > AccuWeatherMaxDays

\* the GET built by AccuWeatherClient::get_location_key
LocationRequest(client, address) ==
    Request("locations/v1/search", "", address, 0, Bearer(client.api_key), "", "")

\* taking the first candidate instead of the last
pop_first(body) == IF Len(body) = 0 THEN NoneV ELSE Some(body[1])

\* body.pop(): the last candidate, None on an empty list
pop(body) == IF Len(body) = 0 THEN NoneV ELSE Some(body[Len(body)])

\* a forecast request that passes the key as a query parameter
ForecastRequest_query_key(client, loc) ==
    Request("forecasts/v1/daily/5day/", client.api_key, "", 0, NoneV, loc.key, "true")

\* the forecast GET built by AccuWeatherClient::get_weather
ForecastRequest(client, loc) ==
    Request("forecasts/v1/daily/5day/", "", "", 0, Bearer(client.api_key), loc.key, "true")

\* the tail of AccuWeatherClient::get_weather: select DailyForecasts[day_from_today]
AccuWeatherReport(body, loc, day_from_today) ==
    IF day_from_today + 1 > Len(body)
    THEN Err("AddressNotFound", "Wrong number of days in API response", "", 0)
    ELSE LET forecast == body[day_from_today + 1] IN
         Ok([provider |-> "WeatherApi",
             date |-> forecast.date,
             location |-> << loc.localized_name, loc.country >>,
             description |-> << forecast.day, forecast.night >>,
             max_temperature |-> forecast.minimum,
             min_temperature |-> forecast.maximum])

\* send()/error_for_status()/json() failures, as both clients report them
TransportErr(failure, api) ==
    IF failure = "send"
    THEN Err("UpstreamTransportError", "failed to send request", api, 0)
    ELSE IF failure = "status"
    THEN Err("UpstreamTransportError", "API returned error status", api, 0)
    ELSE Err("UpstreamSchemaError", "failed to deserialize JSON", api, 0)

\* ------------------------------------------------------------------ store.rs
\* Config::default(): no default provider, an empty map
ConfigDefault == [default |-> NoneV, providers |-> [p \in Provider |-> NoneV]]

\* serde's names: #[serde(rename_all = "lowercase")] on Provider and Credentials
ProviderKey(p) == IF p = "WeatherApi" THEN "weatherapi" ELSE "accuweather"

ProviderKeys == {ProviderKey(p) : p \in Provider}

\* the variant a lowercase name stands for
ProviderOfKey(k) == CHOOSE p \in Provider : ProviderKey(p) = k

\* A TOML document of the credentials file: the optional top-level key
\* `default`, one table [providers.<table>.<variant>] with its api_key for
\* every map entry, and whether the text is whole (a write that fails may
\* leave text that stops in the middle of a line).
Toml(default, providers, complete) ==
    [default |-> default, providers |-> providers, complete |-> complete]

\* a serialization that leaves the default key out
to_string_pretty_no_default(cfg) ==
    Toml(NoneV,
         {[table |-> ProviderKey(p),
           variant |-> ProviderKey(cfg.providers[p][1].variant),
           api_key |-> cfg.providers[p][1].api_key] :
              p \in {q \in Provider : cfg.providers[q] # NoneV}},
         TRUE)

\* toml::to_string_pretty(&self.config): a None default is left out, every
\* map entry becomes the table named by its key holding the externally
\* tagged variant
to_string_pretty(cfg) ==
    Toml(IF cfg.default = NoneV THEN NoneV ELSE Some(ProviderKey(cfg.default[1])),
         {[table |-> ProviderKey(p),
           variant |-> ProviderKey(cfg.providers[p][1].variant),
           api_key |-> cfg.providers[p][1].api_key] :
              p \in {q \in Provider : cfg.providers[q] # NoneV}},
         TRUE)

\* toml::from_str(&contents): None stands for a parse error (text cut in the
\* middle of a line, an unknown provider name, a table defined twice);
\* a missing key or table takes its #[serde(default)]
from_str(doc) ==
    IF \/ ~doc.complete
       \/ doc.default # NoneV /\ doc.default[1] \notin ProviderKeys
       \/ \E t \in doc.providers : t.table \notin ProviderKeys \/ t.variant \notin ProviderKeys
       \/ \E t, u \in doc.providers : t # u /\ t.table = u.table
    THEN NoneV
    ELSE Some([default |-> IF doc.default = NoneV THEN NoneV
                           ELSE Some(ProviderOfKey(doc.default[1])),
               providers |->
                   [p \in Provider |->
                       IF \E t \in doc.providers : t.table = ProviderKey(p)
                       THEN LET t == CHOOSE t \in doc.providers : t.table = ProviderKey(p) IN
                            Some([variant |-> ProviderOfKey(t.variant), api_key |-> t.api_key])
                       ELSE NoneV]])

\* TomlFileCredentialsStore::new_with_path: the parsed file when the path
\* exists, Config::default() when it does not; None for the error
new_with_path(f) == IF f # NoneV THEN from_str(f[1]) ELSE Some(ConfigDefault)

\* what a failed fs::write leaves in the tmp file t when writing doc: the
\* file as it was (it could not be opened), an empty file, the first lines
\* of the text, or text that stops in the middle of a line
Truncation(doc, t, left) ==
    IF left = "untouched" THEN t
    ELSE IF left = "empty" THEN Some(Toml(NoneV, {}, TRUE))
    ELSE IF left = "head" THEN Some(Toml(doc.default, {}, TRUE))
    ELSE Some(Toml(doc.default, {}, FALSE))

\* how one save_file call may go: all well, fs::write fails, fs::rename fails
SaveOutcomes ==
    {[failure |-> "none", left |-> ""], [failure |-> "rename", left |-> ""]}
        \cup [failure : {"write"}, left : {"untouched", "empty", "head", "cut"}]

\* TomlFileCredentialsStore::save_file with the files f (path) and t (tmp)
\* as they are before the call
save_file(cfg, f, t, outcome) ==
    LET data == to_string_pretty(cfg) IN
    IF outcome.failure = "write"
    THEN [ok |-> FALSE, file |-> f, tmp |-> Truncation(data, t, outcome.left)]
    ELSE IF outcome.failure = "rename"
    THEN [ok |-> FALSE, file |-> f, tmp |-> Some(data)]
    ELSE [ok |-> TRUE, file |-> Some(data), tmp |-> NoneV]

\* an insert that drops the entry
insert_nothing(cfg, p, c) == cfg

\* self.config.providers.insert(provider, credentials.clone())
insert(cfg, p, c) == [cfg EXCEPT !.providers[p] = Some(c)]

\* self.config.default = Some(provider)
set_default(cfg, p) == [cfg EXCEPT !.default = Some(p)]

\* ------------------------------------------------------------------ prompter.rs
\* a prompter that always builds the WeatherApi variant
prompt_credentials_weatherapi(p, api_key) == [variant |-> "WeatherApi", api_key |-> api_key]

\* InquirePrompter::prompt_credentials answered with api_key
prompt_credentials(p, api_key) == [variant |-> p, api_key |-> api_key]

\* what the user may do at a Confirm prompt: answer, or end the input
Answers == {"yes", "no", "error"}

\* what the user may do at the Text prompt for the key
KeyInputs == [failure : {"none"}, api_key : ApiKeys] \cup {[failure |-> "stdin", api_key |-> ""]}

\* ------------------------------------------------------------------ state
VARIABLES
    today,          \* Local::now().date_naive()
    ticks,          \* midnights passed since the start
    config,         \* the store's Config, as loaded from the credentials file
    pc,             \* position of the get invocation in WeatherService::get_weather
    address, date, override,    \* its arguments
    days,           \* day offset computed by step 1
    provider,       \* Option: the resolved provider
    creds,          \* Option: the credentials loaded for it
    client,         \* Option: the client the factory built
    location,       \* Option: the location AccuWeather resolved
    storeReads,     \* store operations invoked by this call, in order
    factoryCalls,   \* create_client invocations of this call, in order
    requests,       \* HTTP requests issued by this call, in order
    responses,      \* what the transport answered to each of them
    result,         \* Option: what get_weather returned
    file,           \* Option: the text of <home>/.wezzapp/credentials.toml
    tmp,            \* Option: the text of <home>/.wezzapp/credentials.tmp
    store,          \* Option: the Config of the TomlFileCredentialsStore in use
    cpc,            \* position of the configure invocation in ConfigureHandler::run
    cprovider,      \* Option: its argument
    existing,       \* Option: the credentials found at configure.rs line 30
    overwrite,      \* the local of configure.rs lines 33-37
    prompts,        \* prompter calls of this run with their answers, in order
    storeCalls,     \* store writes of this run with their outcomes, in order
    cresult,        \* Option: what ConfigureHandler::run returned
    lastSet,        \* history: the values most recently set on the store
    saveFailed,     \* history: some set call of the store returned an error
    procs,          \* the configure processes that run side by side
    texts,          \* history: the texts handed to fs::write by their saves
    loaded          \* Option: what a get process opening the file got

disk == << file, tmp >>

run == << store, cpc, cprovider, existing, overwrite, prompts, storeCalls, cresult >>

hist == << lastSet, saveFailed >>

conc == << procs, texts, loaded >>

cliVars == << disk, run, hist, conc >>

vars == << today, ticks, config, pc, address, date, override, days, provider, creds,
           client, location, storeReads, factoryCalls, requests, responses, result,
           cliVars >>

callArgs == << address, date, override >>
clock == << today, ticks >>

\* The day on which the clock starts: the last day of a leap year
StartDay == NaiveDate(2024, 12, 31)

Addresses == {"Kyiv, Ukraine", "Lviv"}

\* Strings that do not parse as %Y-%m-%d
MalformedDates ==
    {DateStr(2025, "/", 1, "/", 1, ""),
     DateStr(2025, "-", 13, "-", 1, ""),
     DateStr(2025, "-", 2, "-", 29, ""),
     DateStr(2024, "-", 11, "-", 31, ""),
     DateStr(2025, "-", 1, "-", 10, "T00:00:00")}

\* Well-formed dates further from today: a month back, two months ahead
\* (past the end of a 28-day February)
FarDates ==
    {DateStr(2024, "-", 11, "-", 30, ""),
     DateStr(2025, "-", 3, "-", 1, "")}

\* Day offsets around today: the past, today, tomorrow, both sides of
\* AccuWeather's and of WeatherAPI's horizon, and the furthest modelled
Offsets ==
    {0 - k : k \in 1..MaxBack} \cup {0, 1, 4, 5, 13, 14} \cup {k \in 15..MaxAhead : TRUE}

\* The date argument: absent, a day around today written as the tests write
\* it, a day further away, or a malformed string
DateArgs(now) ==
    {NoneV} \cup {Some(fmt(add_days(now, k))) : k \in Offsets}
            \cup {Some(s) : s \in FarDates \cup MalformedDates}

\* the configure processes that may run side by side
Proc == {1, 2}

\* a process that has not started
NotStarted ==
    [pc |-> "idle", provider |-> NoneV, store |-> NoneV, opened |-> NoneV, data |-> NoneV,
     step |-> "", fd |-> "none", result |-> NoneV]

\* no process runs side by side with another
NoProcs ==
    /\ procs = [i \in Proc |-> NotStarted]
    /\ texts = {}
    /\ loaded = NoneV

\* no configure invocation is under way
NoRun ==
    /\ store = NoneV
    /\ cpc = "idle"
    /\ cprovider = NoneV
    /\ existing = NoneV
    /\ overwrite = FALSE
    /\ prompts = << >>
    /\ storeCalls = << >>
    /\ cresult = NoneV

\* a get invocation on a credentials file that holds any configuration
Init ==
    /\ today = StartDay
    /\ ticks = 0
    /\ config \in Config
    /\ pc = "idle"
    /\ address = ""
    /\ date = NoneV
    /\ override = NoneV
    /\ days = 0
    /\ provider = NoneV
    /\ creds = NoneV
    /\ client = NoneV
    /\ location = NoneV
    /\ storeReads = << >>
    /\ factoryCalls = << >>
    /\ requests = << >>
    /\ responses = << >>
    /\ result = NoneV
    /\ file = Some(to_string_pretty(config))
    /\ tmp = NoneV
    /\ NoRun
    /\ lastSet = config
    /\ saveFailed = FALSE
    /\ NoProcs

\* the local calendar date changes at midnight
Tick ==
    /\ pc = "idle"
    /\ ticks < MaxTicks
    /\ today' = succ_day(today)
    /\ ticks' = ticks + 1
    /\ UNCHANGED << config, pc, callArgs, days, provider, creds, client, location,
                    storeReads, factoryCalls, requests, responses, result >>
    /\ UNCHANGED cliVars

\* GetHandler::run -> WeatherService::get_weather(address, date, provider)
get_weather_call(a, d, o) ==
    /\ pc = "idle"
    /\ pc' = "days"
    /\ address' = a
    /\ date' = d
    /\ override' = o
    /\ UNCHANGED << clock, config, days, provider, creds, client, location,
                    storeReads, factoryCalls, requests, responses, result >>
    /\ UNCHANGED cliVars

\* a first step that looks up the stored default before it validates the date
get_weather_days_after_lookup ==
    /\ pc = "days"
    /\ storeReads' = Append(storeReads, "get_default_provider")
    /\ LET r == IF date = NoneV
                THEN [ok |-> TRUE, days |-> 0, err |-> "", msg |-> ""]
                ELSE days_from_today(date[1], today) IN
       IF r.ok
       THEN /\ days' = r.days
            /\ pc' = "resolve"
            /\ UNCHANGED result
       ELSE /\ result' = Some(Err(r.err, r.msg, "", 0))
            /\ pc' = "done"
            /\ UNCHANGED days
    /\ UNCHANGED << clock, config, callArgs, provider, creds, client, location,
                    factoryCalls, requests, responses >>
    /\ UNCHANGED cliVars

\* step 1: days_from_today(&date)? or 0
get_weather_days ==
    /\ pc = "days"
    /\ LET r == IF date = NoneV
                THEN [ok |-> TRUE, days |-> 0, err |-> "", msg |-> ""]
                ELSE days_from_today(date[1], today) IN
       IF r.ok
       THEN /\ days' = r.days
            /\ pc' = "resolve"
            /\ UNCHANGED result
       ELSE /\ result' = Some(Err(r.err, r.msg, "", 0))
            /\ pc' = "done"
            /\ UNCHANGED days
    /\ UNCHANGED << clock, config, callArgs, provider, creds, client, location,
                    storeReads, factoryCalls, requests, responses >>
    /\ UNCHANGED cliVars

\* step 2: self.resolve_provider(provider)?
get_weather_resolve ==
    /\ pc = "resolve"
    /\ LET r == resolve_provider(override, config) IN
       /\ storeReads' = storeReads \o r.reads
       /\ IF r.ok
          THEN /\ provider' = Some(r.provider)
               /\ pc' = "credentials"
               /\ UNCHANGED result
          ELSE /\ result' = Some(Err("NoProviderConfigured",
                                     "No provider specified and no default provider set.",
                                     "", 0))
               /\ pc' = "done"
               /\ UNCHANGED provider
    /\ UNCHANGED << clock, config, callArgs, days, creds, client, location,
                    factoryCalls, requests, responses >>
    /\ UNCHANGED cliVars

\* step 3: self.store.get_credentials(provider)?.ok_or_else(..)?
get_weather_credentials ==
    /\ pc = "credentials"
    /\ storeReads' = Append(storeReads, "get_credentials")
    /\ LET c == get_credentials(config, provider[1]) IN
       IF c # NoneV
       THEN /\ creds' = c
            /\ pc' = "factory"
            /\ UNCHANGED result
       ELSE /\ result' = Some(Err("CredentialsNotConfigured",
                                  "No credentials found for provider. Please configure it first.",
                                  provider[1], 0))
            /\ pc' = "done"
            /\ UNCHANGED creds
    /\ UNCHANGED << clock, config, callArgs, days, provider, client, location,
                    factoryCalls, requests, responses >>
    /\ UNCHANGED cliVars

\* step 4: self.factory.create_client(provider, creds)?
get_weather_factory ==
    /\ pc = "factory"
    /\ factoryCalls' = Append(factoryCalls, << provider[1], creds[1] >>)
    /\ LET r == create_client(provider[1], creds[1]) IN
       IF r.ok
       THEN /\ client' = r.client
            /\ pc' = "client"
            /\ UNCHANGED result
       ELSE /\ result' = Some(Err("CredentialsProviderMismatch",
                                  "credentials type does not match provider",
                                  r.named, 0))
            /\ pc' = "done"
            /\ UNCHANGED client
    /\ UNCHANGED << clock, config, callArgs, days, provider, creds, location,
                    storeReads, requests, responses >>
    /\ UNCHANGED cliVars

\* What an upstream may answer to a forecast request for the given offset
ForecastResponses(day_from_today) ==
    {[failure |-> f, n |-> 0] : f \in Failures}
        \cup {[failure |-> "none", n |-> k] : k \in ForecastLens(day_from_today)}

\* What an upstream may answer to a location search
LocationResponses ==
    {[failure |-> f, body |-> << >>] : f \in Failures}
        \cup {[failure |-> "none", body |-> l] : l \in CandidateLists}

\* step 5 with a WeatherApiClient: WeatherApiClient::get_weather(address, days)
WeatherApiClient_get_weather(resp) ==
    /\ pc = "client"
    /\ client[1].kind = "WeatherApi"
    /\ IF WeatherApiHorizonExceeded(days)
       THEN /\ result' = Some(Err("HorizonExceeded",
                     "WeatherAPI only supports up to 14 days forecast (including today).",
                     "WeatherApi", WeatherApiMaxDays))
            /\ UNCHANGED << requests, responses >>
       ELSE /\ requests' = Append(requests, WeatherApiRequest(client[1], address, days))
            /\ responses' = Append(responses, resp)
            /\ result' = Some(IF resp.failure # "none"
                              THEN TransportErr(resp.failure, "WeatherApi")
                              ELSE WeatherApiReport(WeatherApiResponse(resp.n), days))
    /\ pc' = "done"
    /\ UNCHANGED << clock, config, callArgs, days, provider, creds, client, location,
                    storeReads, factoryCalls >>
    /\ UNCHANGED cliVars

\* step 5 with an AccuWeatherClient, up to and including get_location_key
AccuWeatherClient_get_weather(resp) ==
    /\ pc = "client"
    /\ client[1].kind = "AccuWeather"
    /\ IF AccuWeatherHorizonExceeded(days)
       THEN /\ result' = Some(Err("HorizonExceeded",
                     "AccuWeather API only supports up to 5 days forecast (including today).",
                     "AccuWeather", AccuWeatherMaxDays))
            /\ pc' = "done"
            /\ UNCHANGED << requests, responses, location >>
       ELSE /\ requests' = Append(requests, LocationRequest(client[1], address))
            /\ responses' = Append(responses, resp)
            /\ IF resp.failure # "none"
               THEN /\ result' = Some(TransportErr(resp.failure, "AccuWeather"))
                    /\ pc' = "done"
                    /\ UNCHANGED location
               ELSE IF pop(resp.body) = NoneV
               THEN /\ result' = Some(Err("AddressNotFound",
                             "Address not found, please, use more accurate address",
                             "", 0))
                    /\ pc' = "done"
                    /\ UNCHANGED location
               ELSE /\ location' = pop(resp.body)
                    /\ pc' = "forecast"
                    /\ UNCHANGED result
    /\ UNCHANGED << clock, config, callArgs, days, provider, creds, client,
                    storeReads, factoryCalls >>
    /\ UNCHANGED cliVars

\* the rest of AccuWeatherClient::get_weather: the forecast call and the report
AccuWeatherClient_forecast(resp) ==
    /\ pc = "forecast"
    /\ requests' = Append(requests, ForecastRequest(client[1], location[1]))
    /\ responses' = Append(responses, resp)
    /\ result' = Some(IF resp.failure # "none"
                      THEN TransportErr(resp.failure, "AccuWeather")
                      ELSE AccuWeatherReport(AccuWeatherForecastResponse(resp.n),
                                             location[1], days))
    /\ pc' = "done"
    /\ UNCHANGED << clock, config, callArgs, days, provider, creds, client, location,
                    storeReads, factoryCalls >>
    /\ UNCHANGED cliVars

\* get_weather has returned; GetHandler::run renders or propagates and the
\* next invocation starts from scratch
get_weather_return ==
    /\ pc = "done"
    /\ pc' = "idle"
    /\ address' = ""
    /\ date' = NoneV
    /\ override' = NoneV
    /\ days' = 0
    /\ provider' = NoneV
    /\ creds' = NoneV
    /\ client' = NoneV
    /\ location' = NoneV
    /\ storeReads' = << >>
    /\ factoryCalls' = << >>
    /\ requests' = << >>
    /\ responses' = << >>
    /\ result' = NoneV
    /\ UNCHANGED << clock, config >>
    /\ UNCHANGED cliVars

\* ------------------------------------------------------------------ configure.rs
\* what ConfigureHandler::run returns
Done == [kind |-> "Ok", msg |-> ""]

Aborted(m) == [kind |-> "Err", msg |-> m]

Asked(prompt, p, answer) == [prompt |-> prompt, provider |-> p, answer |-> answer]

Stored(op, p, c, ok) == [op |-> op, provider |-> p, credentials |-> c, ok |-> ok]

\* a check that takes credentials to be there always
is_some_always(x) == TRUE

\* existing.is_some()
is_some(x) == x # NoneV

\* a default decision that asks whenever some default is set
match_current_default_ask(current_default, p) ==
    IF current_default = NoneV THEN "set" ELSE "ask"

\* the match of configure.rs lines 53-57
match_current_default(current_default, p) ==
    IF current_default = NoneV THEN "set"
    ELSE IF current_default[1] = p THEN "keep"
    ELSE "ask"

\* main, Command::Configure: the store is opened and the handler is run
main_configure(p) ==
    /\ pc = "idle"
    /\ cpc = "idle"
    /\ LET c == new_with_path(file) IN
       IF c = NoneV
       THEN /\ cresult' = Some(Aborted("failed to parse credentials TOML"))
            /\ cpc' = "done"
            /\ UNCHANGED << store, cprovider >>
       ELSE /\ store' = c
            /\ cprovider' = Some(p)
            /\ cpc' = "existing"
            /\ UNCHANGED cresult
    /\ UNCHANGED << existing, overwrite, prompts, storeCalls, disk, hist, conc >>
    /\ UNCHANGED << clock, config, pc, callArgs, days, provider, creds, client, location,
                    storeReads, factoryCalls, requests, responses, result >>

\* ConfigureHandler::run lines 30-37: look the credentials up and, when
\* there are some, ask whether to overwrite them
ConfigureHandler_run_existing(answer) ==
    /\ cpc = "existing"
    /\ LET found == get_credentials(store[1], cprovider[1]) IN
       /\ existing' = found
       /\ IF is_some(found)
          THEN /\ prompts' = Append(prompts, Asked("confirm_overwrite", cprovider[1], answer))
               /\ IF answer = "error"
                  THEN /\ cresult' = Some(Aborted("failed to read confirmation from stdin"))
                       /\ cpc' = "done"
                       /\ UNCHANGED overwrite
                  ELSE /\ overwrite' = (answer = "yes")
                       /\ cpc' = "credentials"
                       /\ UNCHANGED cresult
          ELSE /\ overwrite' = TRUE
               /\ cpc' = "credentials"
               /\ UNCHANGED << prompts, cresult >>
    /\ UNCHANGED << store, cprovider, storeCalls, disk, hist, conc >>
    /\ UNCHANGED << clock, config, pc, callArgs, days, provider, creds, client, location,
                    storeReads, factoryCalls, requests, responses, result >>

\* ConfigureHandler::run lines 39-48: prompt for the new credentials and
\* store them (insert, then save_file), unless the user declined
ConfigureHandler_run_credentials(input, outcome) ==
    /\ cpc = "credentials"
    /\ IF ~overwrite
       THEN /\ cpc' = "default"
            /\ UNCHANGED << store, prompts, storeCalls, cresult, disk >>
       ELSE IF input.failure # "none"
       THEN /\ prompts' = Append(prompts, Asked("prompt_credentials", cprovider[1], "error"))
            /\ cresult' = Some(Aborted(IF cprovider[1] = "WeatherApi"
                                        THEN "failed to read WeatherAPI API key from stdin"
                                        ELSE "failed to read AccuWeather API key from stdin"))
            /\ cpc' = "done"
            /\ UNCHANGED << store, storeCalls, disk >>
       ELSE LET new_credentials == prompt_credentials(cprovider[1], input.api_key)
                inserted == insert(store[1], cprovider[1], new_credentials)
                saved == save_file(inserted, file, tmp, outcome) IN
            /\ prompts' = Append(prompts, Asked("prompt_credentials", cprovider[1], input.api_key))
            /\ store' = Some(inserted)
            /\ file' = saved.file
            /\ tmp' = saved.tmp
            /\ storeCalls' = Append(storeCalls, Stored("set_credentials", cprovider[1],
                                                       Some(new_credentials), saved.ok))
            /\ IF saved.ok
               THEN /\ cpc' = "default"
                    /\ UNCHANGED cresult
               ELSE /\ cresult' = Some(Aborted("failed to save credentials"))
                    /\ cpc' = "done"
    /\ UNCHANGED << cprovider, existing, overwrite, hist, conc >>
    /\ UNCHANGED << clock, config, pc, callArgs, days, provider, creds, client, location,
                    storeReads, factoryCalls, requests, responses, result >>

\* ConfigureHandler::run lines 50-68: decide about the default provider,
\* asking when another one is the default, and store the decision
ConfigureHandler_run_default(answer, outcome) ==
    /\ cpc = "default"
    /\ LET current_default == get_default_provider(store[1])
           choice == match_current_default(current_default, cprovider[1])
           set == set_default(store[1], cprovider[1])
           saved == save_file(set, file, tmp, outcome) IN
       /\ prompts' = IF choice = "ask"
                     THEN Append(prompts, Asked("confirm_set_default", cprovider[1], answer))
                     ELSE prompts
       /\ IF choice = "ask" /\ answer = "error"
          THEN /\ cresult' = Some(Aborted("failed to read confirmation from stdin"))
               /\ UNCHANGED << store, storeCalls, disk >>
          ELSE IF choice = "set" \/ (choice = "ask" /\ answer = "yes")
          THEN /\ store' = Some(set)
               /\ file' = saved.file
               /\ tmp' = saved.tmp
               /\ storeCalls' = Append(storeCalls, Stored("set_default_provider", cprovider[1],
                                                          NoneV, saved.ok))
               /\ cresult' = Some(IF saved.ok THEN Done
                                  ELSE Aborted("failed to set default provider"))
          ELSE /\ cresult' = Some(Done)
               /\ UNCHANGED << store, storeCalls, disk >>
    /\ cpc' = "done"
    /\ UNCHANGED << cprovider, existing, overwrite, hist, conc >>
    /\ UNCHANGED << clock, config, pc, callArgs, days, provider, creds, client, location,
                    storeReads, factoryCalls, requests, responses, result >>

\* main returns what the handler returned and the process ends
configure_return ==
    /\ cpc = "done"
    /\ store' = NoneV
    /\ cpc' = "idle"
    /\ cprovider' = NoneV
    /\ existing' = NoneV
    /\ overwrite' = FALSE
    /\ prompts' = << >>
    /\ storeCalls' = << >>
    /\ cresult' = NoneV
    /\ UNCHANGED << disk, hist, conc >>
    /\ UNCHANGED << clock, config, pc, callArgs, days, provider, creds, client, location,
                    storeReads, factoryCalls, requests, responses, result >>

\* main, Command::Get: the store is opened from the credentials file and
\* get_weather is called without a date (a file the store cannot parse
\* ends the process before any call)
main_get(a, o) ==
    /\ pc = "idle"
    /\ cpc = "idle"
    /\ new_with_path(file) # NoneV
    /\ config' = new_with_path(file)[1]
    /\ pc' = "days"
    /\ address' = a
    /\ date' = NoneV
    /\ override' = o
    /\ UNCHANGED << clock, days, provider, creds, client, location,
                    storeReads, factoryCalls, requests, responses, result >>
    /\ UNCHANGED cliVars

\* no get invocation is under way
NoCall ==
    /\ pc = "idle"
    /\ address = ""
    /\ date = NoneV
    /\ override = NoneV
    /\ days = 0
    /\ provider = NoneV
    /\ creds = NoneV
    /\ client = NoneV
    /\ location = NoneV
    /\ storeReads = << >>
    /\ factoryCalls = << >>
    /\ requests = << >>
    /\ responses = << >>
    /\ result = NoneV

\* a home directory without a credentials file
InitCli ==
    /\ today = StartDay
    /\ ticks = 0
    /\ config = ConfigDefault
    /\ NoCall
    /\ file = NoneV
    /\ tmp = NoneV
    /\ NoRun
    /\ lastSet = ConfigDefault
    /\ saveFailed = FALSE
    /\ NoProcs

\* configure and get invocations, one process at a time
NextCli ==
    \/ \E p \in Provider : main_configure(p)
    \/ \E answer \in Answers : ConfigureHandler_run_existing(answer)
    \/ \E input \in KeyInputs, outcome \in SaveOutcomes :
          ConfigureHandler_run_credentials(input, outcome)
    \/ \E answer \in Answers, outcome \in SaveOutcomes :
          ConfigureHandler_run_default(answer, outcome)
    \/ configure_return
    \/ \E a \in {"Lviv"}, o \in Option(Provider) : main_get(a, o)
    \/ get_weather_days
    \/ get_weather_resolve
    \/ get_weather_credentials
    \/ get_weather_factory
    \/ \E resp \in ForecastResponses(days) : WeatherApiClient_get_weather(resp)
    \/ \E resp \in LocationResponses : AccuWeatherClient_get_weather(resp)
    \/ \E resp \in ForecastResponses(days) : AccuWeatherClient_forecast(resp)
    \/ get_weather_return

SpecCli == InitCli /\ [][NextCli]_vars

\* ------------------------------------------------------------------ the store on its own
\* TomlFileCredentialsStore::new_with_path(path) on the file as it is
TomlFileCredentialsStore_new ==
    /\ pc = "idle"
    /\ cpc = "idle"
    /\ store = NoneV
    /\ new_with_path(file) # NoneV
    /\ store' = new_with_path(file)
    /\ UNCHANGED << cpc, cprovider, existing, overwrite, prompts, storeCalls, cresult,
                    disk, hist, conc >>
    /\ UNCHANGED << clock, config, pc, callArgs, days, provider, creds, client, location,
                    storeReads, factoryCalls, requests, responses, result >>

\* CredentialsStore::set_credentials(provider, &credentials)
CredentialsStore_set_credentials(p, c, outcome) ==
    /\ cpc = "idle"
    /\ store # NoneV
    /\ LET inserted == insert(store[1], p, c)
           saved == save_file(inserted, file, tmp, outcome) IN
       /\ store' = Some(inserted)
       /\ file' = saved.file
       /\ tmp' = saved.tmp
       /\ lastSet' = IF saved.ok THEN [lastSet EXCEPT !.providers[p] = Some(c)] ELSE lastSet
       /\ saveFailed' = (saveFailed \/ ~saved.ok)
    /\ UNCHANGED conc
    /\ UNCHANGED << cpc, cprovider, existing, overwrite, prompts, storeCalls, cresult >>
    /\ UNCHANGED << clock, config, pc, callArgs, days, provider, creds, client, location,
                    storeReads, factoryCalls, requests, responses, result >>

\* CredentialsStore::set_default_provider(provider)
CredentialsStore_set_default_provider(p, outcome) ==
    /\ cpc = "idle"
    /\ store # NoneV
    /\ LET set == set_default(store[1], p)
           saved == save_file(set, file, tmp, outcome) IN
       /\ store' = Some(set)
       /\ file' = saved.file
       /\ tmp' = saved.tmp
       /\ lastSet' = IF saved.ok THEN [lastSet EXCEPT !.default = Some(p)] ELSE lastSet
       /\ saveFailed' = (saveFailed \/ ~saved.ok)
    /\ UNCHANGED conc
    /\ UNCHANGED << cpc, cprovider, existing, overwrite, prompts, storeCalls, cresult >>
    /\ UNCHANGED << clock, config, pc, callArgs, days, provider, creds, client, location,
                    storeReads, factoryCalls, requests, responses, result >>

\* the store object goes out of scope
TomlFileCredentialsStore_drop ==
    /\ cpc = "idle"
    /\ store # NoneV
    /\ store' = NoneV
    /\ UNCHANGED << cpc, cprovider, existing, overwrite, prompts, storeCalls, cresult,
                    disk, hist, conc >>
    /\ UNCHANGED << clock, config, pc, callArgs, days, provider, creds, client, location,
                    storeReads, factoryCalls, requests, responses, result >>

\* store objects opened on one path, one after the other, and the set
\* calls made on them, up to the first call that returns an error
NextStore ==
    \/ ~saveFailed /\ TomlFileCredentialsStore_new
    \/ \E p \in Provider, c \in Credentials, outcome \in SaveOutcomes :
          ~saveFailed /\ CredentialsStore_set_credentials(p, c, outcome)
    \/ \E p \in Provider, outcome \in SaveOutcomes :
          ~saveFailed /\ CredentialsStore_set_default_provider(p, outcome)
    \/ ~saveFailed /\ TomlFileCredentialsStore_drop

SpecStore == InitCli /\ [][NextStore]_vars

\* ------------------------------------------------------------------ processes side by side
\* the state of a get invocation, which these processes leave alone
callVars == << clock, config, pc, callArgs, days, provider, creds, client, location,
               storeReads, factoryCalls, requests, responses, result >>

\* process i ends with the result r
Exit(i, r) == [procs[i] EXCEPT !.pc = "done", !.fd = "none", !.result = Some(r)]

\* a write through a handle: it reaches the file the handle was opened on,
\* under whatever name that file has by now (none: it was replaced)
WriteTo(fd, doc) ==
    /\ file' = IF fd = "path" THEN Some(doc) ELSE file
    /\ tmp' = IF fd = "tmp" THEN Some(doc) ELSE tmp

\* main, Command::Configure in process i: TomlFileCredentialsStore::new()
proc_main_configure(i, p) ==
    /\ procs[i].pc = "idle"
    /\ LET c == new_with_path(file) IN
       procs' = [procs EXCEPT ![i] =
                    IF c = NoneV
                    THEN Exit(i, Aborted("failed to parse credentials TOML"))
                    ELSE [@ EXCEPT !.pc = "credentials", !.provider = Some(p),
                                   !.store = c, !.opened = c]]
    /\ UNCHANGED << disk, run, lastSet, saveFailed, texts, loaded, callVars >>

\* ConfigureHandler::run lines 30-45 in process i, up to the save_file call
\* of set_credentials
proc_run_credentials(i, answer, input) ==
    /\ procs[i].pc = "credentials"
    /\ LET P == procs[i].provider[1]
           found == get_credentials(procs[i].store[1], P)
           inserted == insert(procs[i].store[1], P, prompt_credentials(P, input.api_key))
           data == to_string_pretty(inserted) IN
       IF is_some(found) /\ answer = "error"
       THEN /\ procs' = [procs EXCEPT ![i] =
                            Exit(i, Aborted("failed to read confirmation from stdin"))]
            /\ UNCHANGED texts
       ELSE IF is_some(found) /\ answer = "no"
       THEN /\ procs' = [procs EXCEPT ![i].pc = "default"]
            /\ UNCHANGED texts
       ELSE IF input.failure # "none"
       THEN /\ procs' = [procs EXCEPT ![i] =
                            Exit(i, Aborted(IF P = "WeatherApi"
                                            THEN "failed to read WeatherAPI API key from stdin"
                                            ELSE "failed to read AccuWeather API key from stdin"))]
            /\ UNCHANGED texts
       ELSE /\ procs' = [procs EXCEPT ![i].pc = "create", ![i].step = "credentials",
                                      ![i].store = Some(inserted), ![i].data = Some(data)]
            /\ texts' = texts \cup {data}
    /\ UNCHANGED << disk, run, lastSet, saveFailed, loaded, callVars >>

\* ConfigureHandler::run lines 50-61 in process i, up to the save_file call
\* of set_default_provider
proc_run_default(i, answer) ==
    /\ procs[i].pc = "default"
    /\ LET P == procs[i].provider[1]
           choice == match_current_default(get_default_provider(procs[i].store[1]), P)
           set == set_default(procs[i].store[1], P)
           data == to_string_pretty(set) IN
       IF choice = "ask" /\ answer = "error"
       THEN /\ procs' = [procs EXCEPT ![i] =
                            Exit(i, Aborted("failed to read confirmation from stdin"))]
            /\ UNCHANGED texts
       ELSE IF choice = "set" \/ (choice = "ask" /\ answer = "yes")
       THEN /\ procs' = [procs EXCEPT ![i].pc = "create", ![i].step = "default",
                                      ![i].store = Some(set), ![i].data = Some(data)]
            /\ texts' = texts \cup {data}
       ELSE /\ procs' = [procs EXCEPT ![i] = Exit(i, Done)]
            /\ UNCHANGED texts
    /\ UNCHANGED << disk, run, lastSet, saveFailed, loaded, callVars >>

\* save_file line 92, fs::write(&tmp, data): the tmp file is created, or
\* emptied when it is there (for every process that has it open)
save_file_create(i, ok) ==
    /\ procs[i].pc = "create"
    /\ IF ok
       THEN /\ tmp' = Some(Toml(NoneV, {}, TRUE))
            /\ procs' = [procs EXCEPT ![i].pc = "write", ![i].fd = "tmp"]
       ELSE /\ procs' = [procs EXCEPT ![i] = Exit(i, Aborted("failed to write config file"))]
            /\ UNCHANGED tmp
    /\ UNCHANGED << file, run, lastSet, saveFailed, texts, loaded, callVars >>

\* save_file line 92, fs::write: a first part of the text reaches the file
save_file_write(i) ==
    /\ procs[i].pc = "write"
    /\ WriteTo(procs[i].fd, Toml(procs[i].data[1].default, {}, FALSE))
    /\ procs' = [procs EXCEPT ![i].pc = "write_all"]
    /\ UNCHANGED << run, lastSet, saveFailed, texts, loaded, callVars >>

\* save_file line 92, fs::write: the rest of the text reaches the file and
\* the file is closed, or the write fails and what was written stays
save_file_write_all(i, ok) ==
    /\ procs[i].pc \in {"write", "write_all"}
    /\ IF ok
       THEN /\ WriteTo(procs[i].fd, procs[i].data[1])
            /\ procs' = [procs EXCEPT ![i].pc = "rename", ![i].fd = "none"]
       ELSE /\ procs' = [procs EXCEPT ![i] = Exit(i, Aborted("failed to write config file"))]
            /\ UNCHANGED disk
    /\ UNCHANGED << run, lastSet, saveFailed, texts, loaded, callVars >>

\* save_file line 95, fs::rename(&tmp, &self.path): the file named tmp takes
\* the place of the one at the store path in one step, also for a process
\* that has it open; it fails when there is no tmp file (any more)
save_file_rename(i, ok) ==
    /\ procs[i].pc = "rename"
    /\ IF ok /\ tmp # NoneV
       THEN /\ file' = tmp
            /\ tmp' = NoneV
            /\ procs' = [j \in Proc |->
                            IF j = i
                            THEN IF procs[i].step = "credentials"
                                 THEN [procs[i] EXCEPT !.pc = "default"]
                                 ELSE Exit(i, Done)
                            ELSE [procs[j] EXCEPT !.fd = IF @ = "tmp" THEN "path"
                                                         ELSE IF @ = "path" THEN "gone"
                                                         ELSE @]]
       ELSE /\ procs' = [procs EXCEPT ![i] =
                            Exit(i, Aborted("failed to rename tmp config file"))]
            /\ UNCHANGED disk
    /\ UNCHANGED << run, lastSet, saveFailed, texts, loaded, callVars >>

\* process i is killed, or the machine stops, wherever the process is
proc_crash(i) ==
    /\ procs[i].pc \notin {"idle", "done", "crashed"}
    /\ procs' = [procs EXCEPT ![i].pc = "crashed", ![i].fd = "none"]
    /\ UNCHANGED << disk, run, lastSet, saveFailed, texts, loaded, callVars >>

\* main, Command::Get in a process of its own: TomlFileCredentialsStore::new()
\* (None inside: the parse error that ends the process)
proc_main_get ==
    /\ loaded' = Some(new_with_path(file))
    /\ UNCHANGED << disk, run, lastSet, saveFailed, procs, texts, callVars >>

\* two configure processes and get processes on one credentials file
NextProcs ==
    \/ \E i \in Proc, p \in Provider : proc_main_configure(i, p)
    \/ \E i \in Proc, answer \in Answers, input \in KeyInputs :
          proc_run_credentials(i, answer, input)
    \/ \E i \in Proc, answer \in Answers : proc_run_default(i, answer)
    \/ \E i \in Proc, ok \in BOOLEAN : save_file_create(i, ok)
    \/ \E i \in Proc : save_file_write(i)
    \/ \E i \in Proc, ok \in BOOLEAN : save_file_write_all(i, ok)
    \/ \E i \in Proc, ok \in BOOLEAN : save_file_rename(i, ok)
    \/ \E i \in Proc : proc_crash(i)
    \/ proc_main_get

SpecProcs == InitCli /\ [][NextProcs]_vars

Next ==
    \/ Tick
    \/ \E a \in Addresses, d \in DateArgs(today), o \in Option(Provider) :
          get_weather_call(a, d, o)
    \/ get_weather_days
    \/ get_weather_resolve
    \/ get_weather_credentials
    \/ get_weather_factory
    \/ \E resp \in ForecastResponses(days) : WeatherApiClient_get_weather(resp)
    \/ \E resp \in LocationResponses : AccuWeatherClient_get_weather(resp)
    \/ \E resp \in ForecastResponses(days) : AccuWeatherClient_forecast(resp)
    \/ get_weather_return

Spec == Init /\ [][Next]_vars

TypeOK ==
    /\ pc \in {"idle", "days", "resolve", "credentials", "factory", "client", "forecast", "done"}
    /\ config \in Config
    /\ override \in Option(Provider)
    /\ provider \in Option(Provider)
    /\ creds \in Option(Credentials)
    /\ days \in Nat

\* ------------------------------------------------------------------ properties
Returned == pc = "done"

HasClient(kind) == client # NoneV /\ client[1].kind = kind

Failed(e) == result # NoneV /\ result[1].kind = "Err" /\ result[1].err = e

Succeeded == result # NoneV /\ result[1].kind = "Ok"

\* C1 as claimed: a WeatherApi client asked for day_offset = 14 passes the
\* horizon check, issues its request and succeeds when the response holds
\* that day; asked for day_offset = 15 it fails with HorizonExceeded.
C1_Offset14Succeeds ==
    (Returned /\ HasClient("WeatherApi")) =>
        /\ days = 14 =>
              /\ ~Failed("HorizonExceeded")
              /\ Len(requests) = 1
              /\ (responses[1].failure = "none" /\ responses[1].n >= 15) => Succeeded
        /\ days = 15 => Failed("HorizonExceeded")

\* C1 amended: the last offset that passes the WeatherApi horizon check is 13
\* (14 days including today): with day_offset = 13 the request is issued and
\* the call succeeds when the response holds that day; with day_offset = 14
\* or 15 the call fails with HorizonExceeded, naming the 14-day limit, and
\* issues no request.
C1_WeatherApiHorizon ==
    (Returned /\ HasClient("WeatherApi")) =>
        /\ days = 13 =>
              /\ ~Failed("HorizonExceeded")
              /\ Len(requests) = 1
              /\ requests[1].days = 14
              /\ (responses[1].failure = "none" /\ responses[1].n >= 14) => Succeeded
        /\ days \in {14, 15} =>
              /\ Failed("HorizonExceeded")
              /\ result[1].limit = 14
              /\ requests = << >>

C1_Witness ==
    /\ Returned
    /\ HasClient("WeatherApi")
    /\ days = 13
    /\ Len(requests) = 1
    /\ Succeeded

\* C2: an AccuWeather client asked for day_offset = 4 passes the horizon
\* check (the location search is issued); asked for any day_offset >= 5 it
\* fails with HorizonExceeded and has issued no request at all.
C2_AccuWeatherHorizon ==
    (pc \in {"forecast", "done"} /\ HasClient("AccuWeather")) =>
        /\ days = 4 =>
              /\ ~Failed("HorizonExceeded")
              /\ Len(requests) >= 1
              /\ requests[1].endpoint = "locations/v1/search"
        /\ days >= 5 =>
              /\ Failed("HorizonExceeded")
              /\ requests = << >>
              /\ responses = << >>

C2_Witness ==
    /\ Returned
    /\ HasClient("AccuWeather")
    /\ days = 5
    /\ Failed("HorizonExceeded")
    /\ requests = << >>

\* C3: create_client called with credentials of the other provider's variant
\* fails with CredentialsProviderMismatch naming the requested provider and
\* builds no client; called with the matching variant it returns that
\* provider's client, holding the credentials' key.
C3_FactoryPairing ==
    factoryCalls # << >> =>
        LET p == factoryCalls[1][1]
            c == factoryCalls[1][2] IN
        IF c.variant # p
        THEN /\ client = NoneV
             /\ Failed("CredentialsProviderMismatch")
             /\ result[1].provider = p
             /\ requests = << >>
        ELSE /\ HasClient(p)
             /\ client[1].api_key = c.api_key
             /\ ~Failed("CredentialsProviderMismatch")

C3_Witness ==
    /\ Returned
    /\ factoryCalls # << >>
    /\ factoryCalls[1][2].variant # factoryCalls[1][1]
    /\ Failed("CredentialsProviderMismatch")

\* the date step let the call through (no date, or an accepted date)
DatePassed == pc \notin {"idle", "days"} /\ ~Failed("InvalidDateFormat") /\ ~Failed("DateInPast")

\* C4: for a call that reaches provider resolution, the effective provider is
\* the override when one is given, whatever the stored default, and the
\* stored default otherwise; with neither, the call fails with
\* NoProviderConfigured, and in no case does such a call read credentials,
\* call the factory or issue a request.
C4_EffectiveProvider ==
    /\ provider # NoneV =>
          /\ override # NoneV => provider = override
          /\ override = NoneV => provider = config.default
    /\ (DatePassed /\ pc # "resolve" /\ override # NoneV) => provider = override
    /\ (DatePassed /\ pc # "resolve" /\ override = NoneV /\ config.default # NoneV) =>
          provider = config.default
    /\ (override = NoneV /\ config.default = NoneV) =>
          /\ provider = NoneV
          /\ creds = NoneV
          /\ client = NoneV
          /\ factoryCalls = << >>
          /\ requests = << >>
          /\ \A i \in 1..Len(storeReads) : storeReads[i] # "get_credentials"
          /\ (DatePassed /\ pc # "resolve") =>
                (Returned /\ Failed("NoProviderConfigured"))

C4_Witness ==
    /\ provider # NoneV
    /\ override # NoneV
    /\ config.default # NoneV
    /\ config.default # override
    /\ provider = override
    /\ Len(storeReads) >= 1

\* C5: when the store holds no credentials for the resolved provider, the
\* call fails with CredentialsNotConfigured naming that provider, the factory
\* is never invoked and no request is issued.
C5_CredentialsNotConfigured ==
    (provider # NoneV /\ config.providers[provider[1]] = NoneV) =>
        /\ factoryCalls = << >>
        /\ client = NoneV
        /\ requests = << >>
        /\ pc \in {"credentials", "done"}
        /\ Returned =>
              /\ Failed("CredentialsNotConfigured")
              /\ result[1].provider = provider[1]

C5_Witness ==
    /\ Returned
    /\ provider # NoneV
    /\ config.providers[provider[1]] = NoneV
    /\ \E q \in Provider : config.providers[q] # NoneV
    /\ Failed("CredentialsNotConfigured")

\* The calendar, walked one day at a time: the number of days from a to the
\* day the string s writes, looking at most MaxFar days ahead (-1: s is no
\* day from a on within that window)
RECURSIVE OffsetOf(_, _, _)
OffsetOf(s, a, n) ==
    IF fmt(a) = s THEN n
    ELSE IF n >= MaxFar THEN 0 - 1
    ELSE OffsetOf(s, succ_day(a), n + 1)

\* the number of days from the day s writes to a, looking at most MaxPast
\* days back (-1: s is no day up to a within that window)
RECURSIVE BackOffsetOf(_, _, _)
BackOffsetOf(s, a, n) ==
    IF fmt(a) = s THEN n
    ELSE IF n >= MaxPast THEN 0 - 1
    ELSE BackOffsetOf(s, pred_day(a), n + 1)

\* the state right after step 1 of a call that was given a date: the call
\* moved on to provider resolution, or returned before any store read
DateStepDone == date # NoneV /\ (pc = "resolve" \/ (Returned /\ storeReads = << >>))

C7_BadDates ==
    DateStepDone =>
        /\ date[1] \in MalformedDates =>
              /\ Returned /\ Failed("InvalidDateFormat")
              /\ days = 0 /\ provider = NoneV /\ storeReads = << >>
        /\ BackOffsetOf(date[1], today, 0) > 0 =>
              /\ Returned /\ Failed("DateInPast")
              /\ days = 0 /\ provider = NoneV /\ storeReads = << >>

C7_Witness ==
    /\ Returned
    /\ date = Some(DateStr(2025, "-", 2, "-", 29, ""))
    /\ Failed("InvalidDateFormat")

\* C8 as claimed: the date 14 days after today is accepted with offset 14,
\* and every date more than 14 days after today is rejected with an error
\* saying the date is more than 14 days ahead.
C8_FourteenDayLimit ==
    DateStepDone =>
        LET n == OffsetOf(date[1], today, 0) IN
        /\ n = 14 => (DatePassed /\ days = 14)
        /\ n > 14 =>
              /\ Returned
              /\ result[1].kind = "Err"
              /\ result[1].msg = "date is more than 14 days ahead"

IsForecastRequest(r) == r.endpoint = "forecasts/v1/daily/5day/"

IsLocationRequest(r) == r.endpoint = "locations/v1/search"

\* C9: a forecast request is only ever the second request, after a location
\* search that answered with a non-empty candidate list, and it carries the
\* key of the last candidate of that list; an empty list ends the call with
\* AddressNotFound after that one request.
C9_LastCandidate ==
    /\ \A i \in 1..Len(requests) :
          IsForecastRequest(requests[i]) =>
              /\ i = 2
              /\ IsLocationRequest(requests[1])
              /\ responses[1].failure = "none"
              /\ Len(responses[1].body) >= 1
              /\ requests[i].location_key = responses[1].body[Len(responses[1].body)].key
    /\ (requests # << >> /\ IsLocationRequest(requests[1])
           /\ responses[1].failure = "none" /\ responses[1].body = << >>) =>
          /\ Returned
          /\ Failed("AddressNotFound")
          /\ Len(requests) = 1

C9_Witness ==
    /\ Len(requests) = 2
    /\ IsForecastRequest(requests[2])
    /\ Len(responses[1].body) = 2
    /\ responses[1].body[1].key # responses[1].body[2].key
    /\ requests[2].location_key = responses[1].body[2].key

\* the scenario of C10: address "Lviv", a date k days after today, provider
\* AccuWeather with AccuWeather credentials in the store
LvivScenario(k) ==
    /\ Returned
    /\ address = "Lviv"
    /\ date = Some(fmt(add_days(today, k)))
    /\ provider = Some("AccuWeather")
    /\ creds # NoneV
    /\ creds[1].variant = "AccuWeather"

UsesLastOfTwo ==
    /\ Len(requests) = 2
    /\ Len(responses[1].body) = 2
    /\ IsForecastRequest(requests[2])
    /\ requests[2].location_key = responses[1].body[2].key

\* C10 as claimed: in the scenario with a date five days after today and a
\* location search that answers with two candidates whenever it is asked,
\* a forecast request with the last candidate's key is issued.
C10_FiveDaysAhead ==
    (LvivScenario(5)
        /\ (responses # << >> => (responses[1].failure = "none" /\ Len(responses[1].body) = 2)))
    => UsesLastOfTwo

\* C10 amended: in the scenario with a date four days after today (the last
\* day of AccuWeather's horizon) and a location search answering with two
\* candidates, a forecast request with the last candidate's key is issued;
\* with a date five days after today the call fails with HorizonExceeded
\* and issues no request.
C10_FourDaysAhead ==
    /\ LvivScenario(4) =>
          /\ ~Failed("HorizonExceeded")
          /\ requests # << >>
          /\ IsLocationRequest(requests[1])
          /\ (responses[1].failure = "none" /\ Len(responses[1].body) = 2) => UsesLastOfTwo
    /\ LvivScenario(5) => (Failed("HorizonExceeded") /\ requests = << >>)

C10_Witness ==
    /\ LvivScenario(4)
    /\ UsesLastOfTwo
    /\ responses[1].body[1].key # responses[1].body[2].key

\* C11: for every offset within the horizon the WeatherApi client issues
\* exactly one GET to forecast.json carrying key = the stored API key,
\* q = the address as given and days = day_offset + 1, a number from 1
\* to 14 (1 when no date was given), and a returned report holds the data of
\* forecastday[day_offset] of the response.
C11_WeatherApiRequest ==
    (Returned /\ HasClient("WeatherApi") /\ days <= 13) =>
        /\ Len(requests) = 1
        /\ requests[1].endpoint = "forecast.json"
        /\ requests[1].key = config.providers[provider[1]][1].api_key
        /\ requests[1].q = address
        /\ requests[1].days = days + 1
        /\ requests[1].days \in 1..14
        /\ date = NoneV => requests[1].days = 1
        /\ Succeeded =>
              LET day == WeatherApiResponse(responses[1].n).forecastday[days + 1]
                  report == result[1].report[1] IN
              /\ report.date = day.date
              /\ report.description = << day.text >>
              /\ report.max_temperature = day.maxtemp_c
              /\ report.min_temperature = day.mintemp_c

C11_Witness ==
    /\ Returned
    /\ HasClient("WeatherApi")
    /\ address = "Kyiv, Ukraine"
    /\ date = NoneV
    /\ creds = Some([variant |-> "WeatherApi", api_key |-> "XYZ"])
    /\ Len(requests) = 1
    /\ requests[1].days = 1
    /\ requests[1].key = "XYZ"
    /\ responses[1].failure = "none"
    /\ responses[1].n = 1
    /\ Succeeded

\* C12 as claimed: a report returned by get_weather carries the provider that
\* was resolved for the call.
C12_ReportProvider ==
    Succeeded => result[1].report[1].provider = provider[1]

\* C13: a client the factory built from the stored credentials
\* authenticates every request with its provider's scheme and that key:
\* WeatherApi in the key query parameter with no Authorization header,
\* AccuWeather in a Bearer Authorization header on the location search and
\* on the forecast call, never in a query parameter.
C13_AuthScheme ==
    \A i \in 1..Len(requests) :
        /\ HasClient("WeatherApi") =>
              /\ requests[i].key = creds[1].api_key
              /\ requests[i].authorization = NoneV
        /\ HasClient("AccuWeather") =>
              /\ requests[i].authorization
                    = Some([scheme |-> "Bearer", token |-> creds[1].api_key])
              /\ requests[i].key = ""

C13_Witness ==
    /\ HasClient("AccuWeather")
    /\ Len(requests) = 2
    /\ requests[1].authorization = Some([scheme |-> "Bearer", token |-> "abc"])
    /\ requests[2].authorization = Some([scheme |-> "Bearer", token |-> "abc"])

\* the error a failed exchange must end the call with
FailureKind(f) == IF f = "json" THEN "UpstreamSchemaError" ELSE "UpstreamTransportError"

\* C14: a call issues at most one request with WeatherApi and at most two
\* with AccuWeather and repeats none; a failed exchange (transport, status,
\* schema), an empty candidate list or a missing day entry ends the call
\* with that error and is its last request; a report is returned only when
\* every request was answered well and the day entry was there, and an
\* error never comes with a report.
C14_AllOrNothing ==
    /\ Len(responses) = Len(requests)
    /\ HasClient("WeatherApi") => Len(requests) <= 1
    /\ HasClient("AccuWeather") => Len(requests) <= 2
    /\ Len(requests) = 2 => requests[1] # requests[2]
    /\ \A i \in 1..Len(responses) :
          responses[i].failure # "none" =>
              /\ i = Len(requests)
              /\ Returned
              /\ Failed(FailureKind(responses[i].failure))
    /\ result # NoneV =>
          /\ result[1].kind = "Err" => result[1].report = NoneV
          /\ Succeeded =>
                /\ result[1].report # NoneV
                /\ Len(requests) = (IF HasClient("WeatherApi") THEN 1 ELSE 2)
                /\ \A i \in 1..Len(responses) : responses[i].failure = "none"
                /\ responses[Len(responses)].n >= days + 1
                /\ HasClient("AccuWeather") => Len(responses[1].body) >= 1

C14_Witness ==
    /\ Returned
    /\ HasClient("AccuWeather")
    /\ Len(requests) = 2
    /\ responses[1].failure = "none"
    /\ responses[2].failure = "json"
    /\ Failed("UpstreamSchemaError")

\* the date given to the call names no day from today on
BadDate == date # NoneV /\ OffsetOf(date[1], today, 0) < 0

\* C18: get_weather validates the date, resolves the provider, loads the
\* credentials, builds the client and calls it, in this order, and returns
\* the error of the first step that fails. A bad date ends the call before
\* the store is read at all, whatever the store holds; a call with no
\* override and no default fails with NoProviderConfigured without looking
\* up any credentials, also when none are stored; the factory is called only
\* with loaded credentials and a request is issued only by a built client.
C18_StepOrder ==
    pc # "idle" =>
        /\ BadDate =>
              /\ pc \in {"days", "done"}
              /\ storeReads = << >>
              /\ factoryCalls = << >>
              /\ requests = << >>
              /\ Returned => (Failed("InvalidDateFormat") \/ Failed("DateInPast"))
        /\ storeReads \in {<< >>, << "get_default_provider" >>, << "get_credentials" >>,
                           << "get_default_provider", "get_credentials" >>}
        /\ (pc \notin {"days", "resolve"} /\ ~BadDate
                /\ override = NoneV /\ config.default = NoneV) =>
              /\ Returned
              /\ Failed("NoProviderConfigured")
              /\ storeReads = << "get_default_provider" >>
              /\ factoryCalls = << >>
              /\ requests = << >>
        /\ Failed("CredentialsNotConfigured") =>
              /\ provider # NoneV
              /\ config.providers[provider[1]] = NoneV
              /\ storeReads[Len(storeReads)] = "get_credentials"
              /\ factoryCalls = << >>
              /\ requests = << >>
        /\ factoryCalls # << >> =>
              /\ Len(factoryCalls) = 1
              /\ creds # NoneV
              /\ storeReads[Len(storeReads)] = "get_credentials"
        /\ Failed("CredentialsProviderMismatch") =>
              /\ Len(factoryCalls) = 1
              /\ requests = << >>
        /\ requests # << >> =>
              /\ client # NoneV
              /\ Len(factoryCalls) = 1

\* a bad date given to a call on a store with neither default nor
\* credentials: the date error is what the call returns
C18_Witness ==
    /\ Returned
    /\ date = Some(DateStr(2025, "-", 13, "-", 1, ""))
    /\ override = NoneV
    /\ config.default = NoneV
    /\ \A p \in Provider : config.providers[p] = NoneV
    /\ storeReads = << >>
    /\ Failed("InvalidDateFormat")

\* ------------------------------------------------------------------ configure runs
\* the configuration the credentials file holds
OnDisk == new_with_path(file)[1]

AskedFor(prompt) == \E i \in 1..Len(prompts) : prompts[i].prompt = prompt

Answered(prompt, answer) ==
    \E i \in 1..Len(prompts) : prompts[i].prompt = prompt /\ prompts[i].answer = answer

Called(op) == \E i \in 1..Len(storeCalls) : storeCalls[i].op = op

InRun == cpc \in {"credentials", "default", "done"} /\ cprovider # NoneV

\* C15: in a configure run for P the overwrite confirmation is asked exactly
\* when the store holds credentials for P; the new credentials are prompted
\* for exactly when none were held or the user confirmed, and what was
\* entered is handed to set_credentials for P; when the user declines, no
\* credentials are prompted for or stored and the ones held for P stay as
\* they were, in the store and in the file.
C15_OverwriteConfirmation ==
    InRun =>
        /\ cpc = "credentials" => existing = OnDisk.providers[cprovider[1]]
        /\ AskedFor("confirm_overwrite") <=> existing # NoneV
        /\ cpc \in {"default", "done"} =>
              /\ AskedFor("prompt_credentials")
                    <=> (existing = NoneV \/ Answered("confirm_overwrite", "yes"))
              /\ Called("set_credentials")
                    <=> (AskedFor("prompt_credentials")
                            /\ ~Answered("prompt_credentials", "error"))
              /\ \A i \in 1..Len(storeCalls) :
                    storeCalls[i].op = "set_credentials" =>
                        /\ storeCalls[i].provider = cprovider[1]
                        /\ Answered("prompt_credentials", storeCalls[i].credentials[1].api_key)
                        /\ storeCalls[i].ok =>
                              OnDisk.providers[cprovider[1]] = storeCalls[i].credentials
              /\ Answered("confirm_overwrite", "no") =>
                    /\ ~AskedFor("prompt_credentials")
                    /\ ~Called("set_credentials")
                    /\ store[1].providers[cprovider[1]] = existing
                    /\ OnDisk.providers[cprovider[1]] = existing

C15_Witness ==
    /\ cpc = "done"
    /\ cresult = Some(Done)
    /\ existing = Some([variant |-> "AccuWeather", api_key |-> "abc"])
    /\ prompts = << Asked("confirm_overwrite", "AccuWeather", "no") >>
    /\ OnDisk.providers["AccuWeather"] = existing

\* C16: the default-provider step of a configure run for P, by the default
\* the store holds when it starts. None: nothing is asked and
\* set_default_provider(P) is called, after which the file names P when the
\* save went well. P itself: nothing is asked, nothing is stored. Another
\* provider: the user is asked, and P is stored as the default only on a
\* yes; on a no, or when the input ends, the default stays.
C16_DefaultProvider ==
    [][(cpc = "default" /\ cpc' = "done") =>
          LET P == cprovider[1]
              before == OnDisk.default
              after == new_with_path(file')[1].default
              asked == /\ Len(prompts') = Len(prompts) + 1
                       /\ prompts'[Len(prompts')].prompt = "confirm_set_default"
              yes == asked /\ prompts'[Len(prompts')].answer = "yes"
              called == /\ Len(storeCalls') = Len(storeCalls) + 1
                        /\ storeCalls'[Len(storeCalls')].op = "set_default_provider"
                        /\ storeCalls'[Len(storeCalls')].provider = P
              saved == called /\ storeCalls'[Len(storeCalls')].ok IN
          /\ ~asked => prompts' = prompts
          /\ ~called => storeCalls' = storeCalls /\ file' = file
          /\ saved => after = Some(P) /\ cresult' = Some(Done)
          /\ ~saved => after = before
          /\ before = NoneV => ~asked /\ called
          /\ before = Some(P) => ~asked /\ ~called /\ cresult' = Some(Done)
          /\ (before # NoneV /\ before # Some(P)) => asked /\ (called <=> yes)
       ]_vars

C16_Witness ==
    /\ cpc = "done"
    /\ cresult = Some(Done)
    /\ cprovider = Some("AccuWeather")
    /\ prompts # << >>
    /\ prompts[Len(prompts)] = Asked("confirm_set_default", "AccuWeather", "yes")
    /\ storeCalls # << >>
    /\ storeCalls[Len(storeCalls)] = Stored("set_default_provider", "AccuWeather", NoneV, TRUE)
    /\ OnDisk.default = Some("AccuWeather")

HoldsDefaultCredentials(cfg) ==
    cfg.default # NoneV => cfg.providers[cfg.default[1]] # NoneV

\* C19: starting without a credentials file, after any configure runs
\* (also ones a prompt error or a failed save ended early) a default
\* provider held by the file, or by the store of a run, has credentials
\* there; so a get_weather call without override never fails with
\* CredentialsNotConfigured.
C19_DefaultHasCredentials ==
    /\ HoldsDefaultCredentials(OnDisk)
    /\ store # NoneV => HoldsDefaultCredentials(store[1])
    /\ pc # "idle" => HoldsDefaultCredentials(config)
    /\ override = NoneV => ~Failed("CredentialsNotConfigured")

C19_Witness ==
    /\ tmp # NoneV
    /\ OnDisk.default = Some("AccuWeather")
    /\ OnDisk.providers["WeatherApi"] = NoneV
    /\ Returned
    /\ override = NoneV
    /\ provider = Some("AccuWeather")
    /\ creds = OnDisk.providers["AccuWeather"]
    /\ Len(storeReads) = 2

VariantsMatch(cfg) ==
    \A p \in Provider : cfg.providers[p] # NoneV => cfg.providers[p][1].variant = p

\* C20: starting without a credentials file, after any configure runs
\* with the interactive prompter every credentials entry, in the file and
\* in the store of a run, holds the variant of the provider it is stored
\* under; so create_client is always given a matching pair and get_weather
\* never fails with CredentialsProviderMismatch.
C20_VariantsMatch ==
    /\ VariantsMatch(OnDisk)
    /\ store # NoneV => VariantsMatch(store[1])
    /\ \A i \in 1..Len(factoryCalls) : factoryCalls[i][2].variant = factoryCalls[i][1]
    /\ ~Failed("CredentialsProviderMismatch")

C20_Witness ==
    /\ Returned
    /\ OnDisk.providers["WeatherApi"] # NoneV
    /\ factoryCalls = << << "AccuWeather", [variant |-> "AccuWeather", api_key |-> "abc"] >> >>
    /\ HasClient("AccuWeather")

\* C17: as long as every set_credentials and set_default_provider call
\* made on the stores of one path has succeeded, get_credentials(P) returns
\* the credentials most recently set for P (none when none were set) and
\* get_default_provider the provider most recently set as default (none
\* when none was), on the store object in use and on a store newly opened
\* from the path.
C17_StoreRoundTrip ==
    ~saveFailed =>
        /\ store # NoneV =>
              /\ \A p \in Provider : get_credentials(store[1], p) = lastSet.providers[p]
              /\ get_default_provider(store[1]) = lastSet.default
        /\ new_with_path(file) # NoneV
        /\ \A p \in Provider :
              get_credentials(new_with_path(file)[1], p) = lastSet.providers[p]
        /\ get_default_provider(new_with_path(file)[1]) = lastSet.default

C17_Witness ==
    /\ ~saveFailed
    /\ store # NoneV
    /\ file # NoneV
    /\ lastSet.default = Some("AccuWeather")
    /\ lastSet.providers["WeatherApi"] = Some([variant |-> "WeatherApi", api_key |-> "XYZ"])
    /\ lastSet.providers["AccuWeather"] = NoneV
    /\ get_default_provider(store[1]) = Some("AccuWeather")
    /\ get_credentials(new_with_path(file)[1], "WeatherApi") = lastSet.providers["WeatherApi"]

\* ------------------------------------------------------------------ processes on one file
\* C21 as claimed: whatever point the save_file calls have reached, and
\* also after a failed call or a crash, the file at the store path is absent
\* (as before the first save) or holds the whole text of a configuration
\* that was saved, never a part of one; and a get process that opens the
\* file loads such a configuration.
C21_PathFileWhole ==
    /\ file # NoneV => file[1] \in texts
    /\ loaded # NoneV =>
          /\ loaded[1] # NoneV
          /\ loaded[1][1] = ConfigDefault \/ to_string_pretty(loaded[1][1]) \in texts

\* both runs have returned Ok, for different providers, each having opened
\* the credentials file while it was not there yet
BothCompleted ==
    /\ \A i \in Proc : procs[i].pc = "done" /\ procs[i].result = Some(Done)
    /\ \A i \in Proc : procs[i].opened = Some(ConfigDefault)
    /\ procs[1].provider # procs[2].provider

\* C22 as claimed: when two configure runs for different providers have
\* both opened the credentials file before either saved and both have
\* completed successfully, the file holds the credentials each of them
\* saved.
C22_NoLostUpdate ==
    BothCompleted =>
        /\ new_with_path(file) # NoneV
        /\ \A i \in Proc :
              new_with_path(file)[1].providers[procs[i].provider[1]]
                  = procs[i].store[1].providers[procs[i].provider[1]]

====
